---- MODULE Spec2Model ----
(***************************************************************************)
(* Retrieval layer of the feedback copilot.                                *)
(*                                                                         *)
(* Two implementations of search_feedback exist in the repository:         *)
(*   scripts/search_feedback.py   (actions and operators prefixed Scr_)    *)
(*   src/agents/retrieval.py      (actions and operators prefixed Agt_)    *)
(* Each invocation is a small sequential program; pc is its position.      *)
(*                                                                         *)
(* Data encoding.  A Python str is a sequence of one-character strings.    *)
(* An Optional value (Python None / SQL NULL) is a sequence of length at   *)
(* most one: None is << >> and a present value x is << x >>.  An embedding *)
(* vector is abstracted to a point on a line, and the vector distance      *)
(* operator <=> to the absolute difference of two points.                  *)
(***************************************************************************)
EXTENDS Integers, Sequences, FiniteSets

VARIABLES
    env,        \* process environment: which configuration values are set
    client,     \* scripts/search_feedback.py: the module global _client
    store,      \* rows of the table public.feedback
    pc,         \* position of the current invocation
    impl,       \* which implementation the current invocation runs
    args,       \* arguments of the current invocation
    query,      \* the question as it reaches the embedding step
    qvec,       \* the vector returned by the embedding step
    sent,       \* the statement and parameters handed to the store
    rows,       \* rows fetched from the store
    results,    \* list built by the row-mapping loop
    outcome,    \* "none" while running, then "return" or "raise"
    error,      \* the exception that ended a raising invocation
    openConns,  \* store connections currently open
    log,        \* external calls of the current invocation, in order
    prev,       \* history: question and vector of the last invocation that returned rows
    ui,         \* app/app.py: st.session_state of one browser session
    ing,        \* scripts/ingest_feedback.py: the ingestion run
    gc          \* threads inside get_client of scripts/search_feedback.py

vars == << env, client, store, pc, impl, args, query, qvec, sent, rows,
           results, outcome, error, openConns, log, prev, ui, ing, gc >>

\* the state of the programs around the retrieval layer
ext == << ui, ing, gc >>

----------------------------------------------------------------------------
(* Bounds of the model *)

MaxTopK == 2

MaxVec == 2
NumThreads == 2

----------------------------------------------------------------------------
(* Python values *)

None == << >>

Some(x) == << x >>

Val(o) == o[1]

\* the only whitespace character of the model's alphabet
IsSpace(c) == c = " "

RECURSIVE LStrip(_)
LStrip(s) == IF s # << >> /\ IsSpace(Head(s)) THEN LStrip(Tail(s)) ELSE s

RECURSIVE RStrip(_)
RStrip(s) ==
    IF s # << >> /\ IsSpace(s[Len(s)]) THEN RStrip(SubSeq(s, 1, Len(s) - 1)) ELSE s

\* str.strip()
Strip(s) == RStrip(LStrip(s))

\* truth value of an Optional[str]: None and "" are falsy
Truthy(o) == o # None /\ Val(o) # << >>

\* `x or ""` on an Optional[str]
OrEmpty(o) == IF Truthy(o) THEN Val(o) ELSE << >>

\* float(x): raises TypeError on None, otherwise the number itself as a float
PyFloat(x) ==
    IF x = None THEN [ok |-> FALSE, exc |-> "TypeError"]
    ELSE [ok |-> TRUE, val |-> Val(x)]

Min(a, b) == IF a < b THEN a ELSE b

Abs(a) == IF a < 0 THEN 0 - a ELSE a

----------------------------------------------------------------------------
(* Inputs and environment *)

Questions == { None, Some(<< >>), Some(<< " " >>), Some(<< " ", "q" >>) }

Platforms == { None, Some(<< >>), Some(<< "A" >>), Some(<< "A", " " >>) }

Countries == { None, Some(<< " " >>), Some(<< "U" >>) }

UserTypes == { None, Some(<< >>), Some(<< "n" >>) }

TopKs == 0 .. MaxTopK

\* a well-formed embedding
Vectors == 0 .. MaxVec

\* a response vector of the wrong shape (shorter than the stored embeddings)
ShortVec == MaxVec + 1

\* what one request to the embedding provider can come back with
ProviderOutcomes == { "ok", "error", "timeout", "empty", "short" }

Row(i, c, p, u, r, t, e) ==
    [ id |-> i, country |-> c, platform |-> p, user_type |-> u,
      rating |-> r, text |-> t, embedding |-> e ]

FeedbackRows ==
    { Row(1, Some(<< "U" >>), Some(<< "A" >>), Some(<< "n" >>), Some(5), << "a" >>, Some(0)),
      Row(2, Some(<< "U" >>), Some(<< "i" >>), None,            Some(1), << "b" >>, Some(1)),
      Row(3, None,            Some(<< "A" >>), Some(<< "n" >>), None,    << "c" >>, Some(1)),
      Row(4, Some(<< "U" >>), Some(<< "A" >>), None,            Some(3), << "d" >>, None) }

\* the table is empty or holds the four rows
Stores == { {}, FeedbackRows }

NoArgs == [ question |-> None, top_k |-> 0, country |-> None,
            platform |-> None, user_type |-> None ]

NoQuery == [ kind |-> "none" ]

\* st.session_state as the script first sets it
NoSession == [ evidence |-> << >>, analysis_text |-> << >>, weekly_text |-> << >> ]

\* no ingestion run has started
NoRun == [ pc |-> "idle", csv |-> << >>, i |-> 1, emb |-> None, wiped |-> FALSE,
           nextId |-> 1, reqs |-> << >>, ins |-> << >> ]

\* the threads that call get_client (one per browser session)
Threads == 1 .. NumThreads

\* no thread has entered get_client and no client object was built; a client
\* object is identified by the order of its construction, 0 standing for none
NoThreads == [ pc |-> [ t \in Threads |-> "out" ], made |-> [ t \in Threads |-> 0 ],
               got |-> [ t \in Threads |-> 0 ], built |-> 0 ]

----------------------------------------------------------------------------
(* The feedback store *)

\* embedding <=> q
Distance(e, q) == Abs(e - q)

\* position of a row under `order by embedding <=> q` (ascending, NULLs last)
OrderKey(r, q) ==
    IF r.embedding = None THEN MaxVec + 2 ELSE Distance(Val(r.embedding), q)

\* 1 - (embedding <=> q); NULL when the row has no embedding
Score(r, q) ==
    IF r.embedding = None THEN None ELSE Some(1 - Distance(Val(r.embedding), q))

\* every ordering of the rows S by ascending distance to q; rows at the same
\* distance may come in either order
RECURSIVE OrderedBy(_, _)
OrderedBy(S, q) ==
    IF S = {} THEN { << >> }
    ELSE LET first == { r \in S : \A o \in S : OrderKey(r, q) <= OrderKey(o, q) }
         IN  UNION { { << r >> \o t : t \in OrderedBy(S \ { r }, q) } : r \in first }

\* mutation: the limit is not applied
Limit_Dropped(s, k) == s

\* limit k
Limit(s, k) == SubSeq(s, 1, Min(k, Len(s)))

\* SQL `column = value`: never true of a NULL column
SqlEq(col, v) == col # None /\ col = v

\* the select list of agents/retrieval.py: id, country, platform, rating, text, score
Agt_Columns(r, q) == << r.id, r.country, r.platform, r.rating, r.text, Score(r, q) >>

\* the statement of agents/retrieval.py run on a table: the answers the store may give
Agt_Select(table, stmt) ==
    LET q     == stmt.params.q_emb
        match == { r \in table :
                     \A i \in 1 .. Len(stmt.where) :
                        SqlEq(r[stmt.where[i]], stmt.params[stmt.where[i]]) }
    IN  { Limit([ i \in 1 .. Len(s) |-> Agt_Columns(s[i], q) ], stmt.params.k) :
            s \in OrderedBy(match, q) }

\* the columns match_feedback returns: id, content, country, platform, rating, similarity
MatchColumns(r, q) == << r.id, r.text, r.country, r.platform, r.rating, Score(r, q) >>

\* the store function match_feedback(query_embedding, match_count, country,
\* platform, user_type): a NULL filter argument is no constraint, any other is an
\* exact match; ascending distance; at most match_count rows
MatchFeedback(table, q, k, country, platform, user_type) ==
    LET match == { r \in table :
                     /\ country = None \/ SqlEq(r.country, country)
                     /\ platform = None \/ SqlEq(r.platform, platform)
                     /\ user_type = None \/ SqlEq(r.user_type, user_type) }
    IN  { Limit([ i \in 1 .. Len(s) |-> MatchColumns(s[i], q) ], k) :
            s \in OrderedBy(match, q) }

\* the store rejects a vector of the wrong dimension and a negative limit
StoreRejects(q, k) == q \notin Vectors \/ k < 0

----------------------------------------------------------------------------
(* Shared steps *)

Event(e, a) == [ ev |-> e, arg |-> a ]

Raise(e) ==
    /\ pc' = "done"
    /\ outcome' = "raise"
    /\ error' = e

ReturnList(l) ==
    /\ pc' = "done"
    /\ outcome' = "return"
    /\ results' = l
    /\ error' = "none"

\* mutation: the connection is left open
ConnExit_Leak(n) == n

\* leaving `with psycopg.connect(...) as conn`: the connection is closed
ConnExit(n) == n - 1

\* everything but the table
Boot ==
    /\ env \in [ db_url : BOOLEAN, api_key : BOOLEAN ]
    /\ client = None
    /\ pc = "idle"
    /\ impl = "none"
    /\ args = NoArgs
    /\ query = None
    /\ qvec = None
    /\ sent = NoQuery
    /\ rows = << >>
    /\ results = << >>
    /\ outcome = "none"
    /\ error = "none"
    /\ openConns = 0
    /\ log = << >>
    /\ prev = None
    /\ ui = NoSession
    /\ ing = NoRun
    /\ gc = NoThreads

Init ==
    /\ Boot
    /\ store \in Stores

\* the invocation's frame is discarded; the caller has its list or its exception
Return ==
    /\ pc = "done"
    /\ pc' = "idle"
    /\ impl' = "none"
    /\ args' = NoArgs
    /\ query' = None
    /\ qvec' = None
    /\ sent' = NoQuery
    /\ rows' = << >>
    /\ results' = << >>
    /\ outcome' = "none"
    /\ error' = "none"
    /\ log' = << >>
    /\ UNCHANGED << ing, gc, env, client, store, openConns >>

\* mutation: a vector kept from the last invocation with the same question
QueryVector_Cached ==
    IF prev # None /\ Val(prev).question = query THEN Val(Val(prev).vec) ELSE Val(qvec)

\* the vector handed to the store is the one the embedding step of this
\* invocation returned
QueryVector == Val(qvec)

----------------------------------------------------------------------------
(* scripts/search_feedback.py *)

Scr_Call(q, k, c, p, u) ==
    /\ pc = "idle"
    /\ pc' = "scr_config"
    /\ impl' = "scripts"
    /\ args' = [ question |-> q, top_k |-> k, country |-> c, platform |-> p,
                 user_type |-> u ]
    /\ UNCHANGED << ext, prev, env, client, store, query, qvec, sent, rows, results,
                    outcome, error, openConns, log >>

\* db_url = os.getenv("SUPABASE_DB_URL"); if not db_url: raise RuntimeError
Scr_CheckDbUrl ==
    /\ pc = "scr_config"
    /\ IF ~env.db_url
       THEN Raise("RuntimeError: Missing SUPABASE_DB_URL")
       ELSE pc' = "scr_strip" /\ UNCHANGED << outcome, error >>
    /\ UNCHANGED << ext, prev, env, client, store, impl, args, query, qvec, sent, rows,
                    results, openConns, log >>

\* query = (query or "").strip()
Scr_Normalize(q) == Strip(OrEmpty(q))

\* if not query: return []
Scr_StripQuery ==
    /\ pc = "scr_strip"
    /\ query' = Some(Scr_Normalize(args.question))
    /\ IF Scr_Normalize(args.question) = << >>
       THEN ReturnList(<< >>)
       ELSE pc' = "scr_client" /\ UNCHANGED << results, outcome, error >>
    /\ UNCHANGED << ext, prev, env, client, store, impl, args, qvec, sent, rows,
                    openConns, log >>

\* get_client(): build the shared client on first use, or raise without the key
Scr_GetClient ==
    /\ pc = "scr_client"
    /\ IF client = None
       THEN IF ~env.api_key
            THEN Raise("RuntimeError: Missing OPENAI_API_KEY") /\ UNCHANGED client
            ELSE /\ client' = Some("OpenAI")
                 /\ pc' = "scr_create"
                 /\ UNCHANGED << outcome, error >>
       ELSE pc' = "scr_create" /\ UNCHANGED << client, outcome, error >>
    /\ UNCHANGED << ext, prev, env, store, impl, args, query, qvec, sent, rows, results,
                    openConns, log >>

\* r = client.embeddings.create(...); return r.data[0].embedding
Scr_EmbeddingsCreate ==
    /\ pc = "scr_create"
    /\ \E o \in ProviderOutcomes, v \in Vectors :
          CASE o = "ok" ->
                 /\ qvec' = Some(v)
                 /\ log' = Append(log, Event("embed", Some(v)))
                 /\ pc' = "scr_connect"
                 /\ UNCHANGED << outcome, error >>
            [] o = "short" ->
                 /\ qvec' = Some(ShortVec)
                 /\ log' = Append(log, Event("embed", Some(ShortVec)))
                 /\ pc' = "scr_connect"
                 /\ UNCHANGED << outcome, error >>
            [] o = "error" ->
                 /\ log' = Append(log, Event("embed", None))
                 /\ Raise("openai.APIError")
                 /\ UNCHANGED qvec
            [] o = "timeout" ->
                 /\ log' = Append(log, Event("embed", None))
                 /\ Raise("openai.APITimeoutError")
                 /\ UNCHANGED qvec
            [] o = "empty" ->
                 /\ log' = Append(log, Event("embed", None))
                 /\ Raise("IndexError")
                 /\ UNCHANGED qvec
    /\ UNCHANGED << ext, prev, env, client, store, impl, args, query, sent, rows, results,
                    openConns >>

\* with psycopg.connect(db_url) as conn: the connection opens or connect raises
Scr_Connect ==
    /\ pc = "scr_connect"
    /\ log' = Append(log, Event("connect", None))
    /\ \/ /\ openConns' = openConns + 1
          /\ pc' = "scr_execute"
          /\ UNCHANGED << outcome, error >>
       \/ /\ Raise("psycopg.OperationalError")
          /\ UNCHANGED openConns
    /\ UNCHANGED << ext, prev, env, client, store, impl, args, query, qvec, sent, rows,
                    results >>

\* the parameters of `select * from match_feedback(%s::vector(1536), %s, %s, %s, %s)`
Scr_Params(v, k, c, p, u) ==
    [ q_emb |-> v, k |-> k, country |-> c, platform |-> p, user_type |-> u ]

\* cur.execute(...); rows = cur.fetchall()
Scr_Execute ==
    /\ pc = "scr_execute"
    /\ LET stmt == [ kind |-> "match_feedback",
                     params |-> Scr_Params(QueryVector, args.top_k, args.country,
                                           args.platform, args.user_type) ]
       IN  /\ sent' = stmt
           /\ log' = Append(log, Event("query", Some(stmt.params.q_emb)))
           /\ \/ /\ ~StoreRejects(stmt.params.q_emb, stmt.params.k)
                 /\ rows' \in MatchFeedback(store, stmt.params.q_emb, stmt.params.k,
                                            stmt.params.country, stmt.params.platform,
                                            stmt.params.user_type)
                 /\ pc' = "scr_exit"
                 /\ UNCHANGED error
              \/ /\ error' = "psycopg.Error"
                 /\ pc' = "scr_exit_exc"
                 /\ UNCHANGED rows
    /\ UNCHANGED << ext, prev, env, client, store, impl, args, query, qvec, results,
                    outcome, openConns >>

\* the with block is left, normally or by the exception of execute
Scr_ExitWith ==
    /\ pc \in { "scr_exit", "scr_exit_exc" }
    /\ openConns' = ConnExit(openConns)
    /\ log' = Append(log, Event("close", None))
    /\ IF pc = "scr_exit_exc"
       THEN Raise(error)
       ELSE pc' = "scr_map" /\ UNCHANGED << outcome, error >>
    /\ UNCHANGED << ext, prev, env, client, store, impl, args, query, qvec, sent, rows,
                    results >>

\* mutation: country and platform are unpacked in each other's place
Scr_Record_Swapped(row) ==
    [ id |-> row[1], text |-> row[2], country |-> row[4], platform |-> row[3],
      rating |-> row[5], similarity |-> PyFloat(row[6]).val ]

\* one pass of the loop body: unpack a row, build its dict
Scr_Record(row) ==
    [ id |-> row[1], text |-> row[2], country |-> row[3], platform |-> row[4],
      rating |-> row[5], similarity |-> PyFloat(row[6]).val ]

\* for (...) in rows: results.append({...}); the first failing float() ends the loop
Scr_MapRows ==
    /\ pc = "scr_map"
    /\ IF \E i \in 1 .. Len(rows) : ~PyFloat(rows[i][6]).ok
       THEN Raise("TypeError") /\ UNCHANGED results
       ELSE ReturnList([ i \in 1 .. Len(rows) |-> Scr_Record(rows[i]) ])
    /\ UNCHANGED << ext, prev, env, client, store, impl, args, query, qvec, sent, rows,
                    openConns, log >>

Scr_Steps ==
    \/ Scr_CheckDbUrl
    \/ Scr_StripQuery
    \/ Scr_GetClient
    \/ Scr_EmbeddingsCreate
    \/ Scr_Connect
    \/ Scr_Execute
    \/ Scr_ExitWith
    \/ Scr_MapRows

----------------------------------------------------------------------------
(* src/agents/retrieval.py *)

\* the module builds `client = OpenAI()` when it is imported, which needs the API
\* key; search_feedback can be called only once the import has succeeded
Agt_Call(q, k, p, c) ==
    /\ pc = "idle"
    /\ env.api_key
    /\ pc' = "agt_embed"
    /\ impl' = "agents"
    /\ args' = [ question |-> q, top_k |-> k, country |-> c, platform |-> p,
                 user_type |-> None ]
    /\ UNCHANGED << ext, prev, env, client, store, query, qvec, sent, rows, results,
                    outcome, error, openConns, log >>

\* q_emb = embed_text(question, embed_model): the question goes out as it came
Agt_EmbedText ==
    /\ pc = "agt_embed"
    /\ query' = args.question
    /\ \E o \in ProviderOutcomes, v \in Vectors :
          CASE o = "ok" ->
                 /\ qvec' = Some(v)
                 /\ log' = Append(log, Event("embed", Some(v)))
                 /\ pc' = "agt_build"
                 /\ UNCHANGED << outcome, error >>
            [] o = "short" ->
                 /\ qvec' = Some(ShortVec)
                 /\ log' = Append(log, Event("embed", Some(ShortVec)))
                 /\ pc' = "agt_build"
                 /\ UNCHANGED << outcome, error >>
            [] o = "error" ->
                 /\ log' = Append(log, Event("embed", None))
                 /\ Raise("openai.APIError")
                 /\ UNCHANGED qvec
            [] o = "timeout" ->
                 /\ log' = Append(log, Event("embed", None))
                 /\ Raise("openai.APITimeoutError")
                 /\ UNCHANGED qvec
            [] o = "empty" ->
                 /\ log' = Append(log, Event("embed", None))
                 /\ Raise("IndexError")
                 /\ UNCHANGED qvec
    /\ UNCHANGED << ext, prev, env, client, store, impl, args, sent, rows, results,
                    openConns >>

\* `if value and value.strip()`: the filter is used
Agt_Active(o) == Truthy(o) /\ Strip(Val(o)) # << >>

\* filters, params and the statement text built from them
Agt_Statement(v, k, platform, country) ==
    [ kind |-> "select",
      where |-> (IF Agt_Active(platform) THEN << "platform" >> ELSE << >>)
                \o (IF Agt_Active(country) THEN << "country" >> ELSE << >>),
      params |-> [ q_emb |-> v, k |-> k,
                   platform |-> IF Agt_Active(platform)
                                THEN Some(Strip(Val(platform))) ELSE None,
                   country |-> IF Agt_Active(country)
                               THEN Some(Strip(Val(country))) ELSE None,
                   user_type |-> None ] ]

Agt_BuildQuery ==
    /\ pc = "agt_build"
    /\ sent' = Agt_Statement(QueryVector, args.top_k, args.platform, args.country)
    /\ pc' = "agt_connect"
    /\ UNCHANGED << ext, prev, env, client, store, impl, args, query, qvec, rows, results,
                    outcome, error, openConns, log >>

\* with psycopg.connect(db_url) as conn: db_url was read and not checked; without
\* it the driver falls back on its defaults, and the attempt is made all the same
Agt_Connect ==
    /\ pc = "agt_connect"
    /\ log' = Append(log, Event("connect", None))
    /\ \/ /\ openConns' = openConns + 1
          /\ pc' = "agt_execute"
          /\ UNCHANGED << outcome, error >>
       \/ /\ Raise("psycopg.OperationalError")
          /\ UNCHANGED openConns
    /\ UNCHANGED << ext, prev, env, client, store, impl, args, query, qvec, sent, rows,
                    results >>

\* cur.execute(sql, params); rows = cur.fetchall()
Agt_Execute ==
    /\ pc = "agt_execute"
    /\ log' = Append(log, Event("query", Some(sent.params.q_emb)))
    /\ \/ /\ ~StoreRejects(sent.params.q_emb, sent.params.k)
          /\ rows' \in Agt_Select(store, sent)
          /\ pc' = "agt_exit"
          /\ UNCHANGED error
       \/ /\ error' = "psycopg.Error"
          /\ pc' = "agt_exit_exc"
          /\ UNCHANGED rows
    /\ UNCHANGED << ext, prev, env, client, store, impl, args, query, qvec, sent, results,
                    outcome, openConns >>

Agt_ExitWith ==
    /\ pc \in { "agt_exit", "agt_exit_exc" }
    /\ openConns' = ConnExit(openConns)
    /\ log' = Append(log, Event("close", None))
    /\ IF pc = "agt_exit_exc"
       THEN Raise(error)
       ELSE pc' = "agt_map" /\ UNCHANGED << outcome, error >>
    /\ UNCHANGED << ext, prev, env, client, store, impl, args, query, qvec, sent, rows,
                    results >>

Agt_Record(row) ==
    [ id |-> row[1], country |-> row[2], platform |-> row[3], rating |-> row[4],
      text |-> row[5], score |-> PyFloat(row[6]).val ]

Agt_MapRows ==
    /\ pc = "agt_map"
    /\ IF \E i \in 1 .. Len(rows) : ~PyFloat(rows[i][6]).ok
       THEN Raise("TypeError") /\ UNCHANGED results
       ELSE ReturnList([ i \in 1 .. Len(rows) |-> Agt_Record(rows[i]) ])
    /\ UNCHANGED << ext, prev, env, client, store, impl, args, query, qvec, sent, rows,
                    openConns, log >>

Agt_Steps ==
    \/ Agt_EmbedText
    \/ Agt_BuildQuery
    \/ Agt_Connect
    \/ Agt_Execute
    \/ Agt_ExitWith
    \/ Agt_MapRows

----------------------------------------------------------------------------
(* app/app.py: run_retrieval *)

Digits == << "0", "1", "2", "3", "4", "5", "6", "7", "8", "9" >>

\* str(n) of a non-negative int
RECURSIVE PyStr(_)
PyStr(n) ==
    IF n < 10 THEN << Digits[n + 1] >>
    ELSE PyStr(n \div 10) \o << Digits[(n % 10) + 1] >>

\* float(h.get("similarity") or 0.0): a record without that key counts as 0.0
GetSimilarity(h) ==
    IF "similarity" \in DOMAIN h /\ h.similarity # 0 THEN h.similarity ELSE 0

\* EvidenceItem(...) built from one record of search_feedback
EvidenceItem(h) ==
    [ evidence_id |-> PyStr(h.id),
      platform    |-> OrEmpty(h.platform),
      country     |-> OrEmpty(h.country),
      rating      |-> h.rating,
      similarity  |-> GetSimilarity(h),
      text        |-> Strip(h.text) ]

----------------------------------------------------------------------------
(* scripts/ingest_feedback.py *)

MaxCsv == 3

CsvRow(t, c, p, r) == [ text |-> t, country |-> c, platform |-> p, rating |-> r ]

\* rows a CSV file may hold; a field is None when its column is missing
CsvRows ==
    { CsvRow(Some(<< " ", "a", " " >>), Some(<< "U" >>), Some(<< "A" >>), Some(<< "5" >>)),
      CsvRow(Some(<< "b" >>),           Some(<< " " >>), None,            Some(<< "x" >>)),
      CsvRow(Some(<< " " >>),           Some(<< "U" >>), Some(<< "A" >>), Some(<< "4" >>)),
      CsvRow(None,                      None,            Some(<< "i" >>), None) }

\* the files the run may read: at most MaxCsv rows
CsvFiles == UNION { [ 1 .. n -> CsvRows ] : n \in 0 .. MaxCsv }

\* a table left by an earlier writer, one of its rows with a blank text
StaleRows ==
    { Row(1, None, None, None, None, << " " >>, Some(0)),
      Row(2, Some(<< "U" >>), None, None, Some(2), << "z" >>, Some(1)) }

\* str.isdigit()
IsDigit(s) == s # << >> /\ \A i \in DOMAIN s : \E d \in DOMAIN Digits : Digits[d] = s[i]

\* int(s) of a string of digits
RECURSIVE PyInt(_)
PyInt(s) ==
    IF s = << >> THEN 0
    ELSE 10 * PyInt(SubSeq(s, 1, Len(s) - 1))
         + ((CHOOSE d \in DOMAIN Digits : Digits[d] = s[Len(s)]) - 1)

\* mutation: the text is taken as it stands in the file
Ing_Text_Unstripped(r) == OrEmpty(r.text)

\* text = (r.get("text") or "").strip()
Ing_Text(r) == Strip(OrEmpty(r.text))

\* (r.get(name) or "").strip() or None
Ing_Optional(o) == IF Strip(OrEmpty(o)) = << >> THEN None ELSE Some(Strip(OrEmpty(o)))

\* rating = int(rating_raw) if rating_raw.isdigit() else None
Ing_Rating(o) ==
    IF IsDigit(Strip(OrEmpty(o))) THEN Some(PyInt(Strip(OrEmpty(o)))) ELSE None

\* the record the insert statement writes; the store numbers it
Ing_Record(r, id, emb) ==
    Row(id, Ing_Optional(r.country), Ing_Optional(r.platform), None,
        Ing_Rating(r.rating), Ing_Text(r), Some(emb))

\* an exception leaves main(): the with block closes the connection
Ing_Fail(closing) ==
    /\ ing' = [ ing EXCEPT !.pc = "failed" ]
    /\ openConns' = IF closing THEN ConnExit(openConns) ELSE openConns

Ing_Start(csv) ==
    /\ ing.pc = "idle"
    /\ pc = "idle"
    /\ ing' = [ ing EXCEPT !.pc = "env", !.csv = csv,
                           !.nextId = 1 + Cardinality(store) ]
    /\ UNCHANGED << env, client, store, pc, impl, args, query, qvec, sent, rows,
                    results, outcome, error, openConns, log, prev, ui, gc >>

\* db_url = require_env(...); api_key = require_env(...)
Ing_RequireEnv ==
    /\ ing.pc = "env"
    /\ IF env.db_url /\ env.api_key
       THEN ing' = [ ing EXCEPT !.pc = "connect" ] /\ UNCHANGED openConns
       ELSE Ing_Fail(FALSE)
    /\ UNCHANGED << env, client, store, pc, impl, args, query, qvec, sent, rows,
                    results, outcome, error, log, prev, ui, gc >>

\* with psycopg.connect(db_url) as conn: conn.autocommit = True
Ing_Connect ==
    /\ ing.pc = "connect"
    /\ \/ /\ openConns' = openConns + 1
          /\ ing' = [ ing EXCEPT !.pc = "wipe" ]
       \/ Ing_Fail(FALSE)
    /\ UNCHANGED << env, client, store, pc, impl, args, query, qvec, sent, rows,
                    results, outcome, error, log, prev, ui, gc >>

\* delete from public.feedback
Ing_Wipe ==
    /\ ing.pc = "wipe"
    /\ \/ /\ store' = {}
          /\ ing' = [ ing EXCEPT !.pc = "row", !.wiped = TRUE ]
          /\ UNCHANGED openConns
       \/ Ing_Fail(TRUE) /\ UNCHANGED store
    /\ UNCHANGED << env, client, pc, impl, args, query, qvec, sent, rows,
                    results, outcome, error, log, prev, ui, gc >>

\* for r in reader: a row with no text is skipped; after the last row the with
\* blocks are left
Ing_NextRow ==
    /\ ing.pc = "row"
    /\ IF ing.i > Len(ing.csv)
       THEN /\ ing' = [ ing EXCEPT !.pc = "done" ]
            /\ openConns' = ConnExit(openConns)
       ELSE /\ ing' = IF Ing_Text(ing.csv[ing.i]) = << >>
                      THEN [ ing EXCEPT !.i = ing.i + 1 ]
                      ELSE [ ing EXCEPT !.pc = "embed" ]
            /\ UNCHANGED openConns
    /\ UNCHANGED << env, client, store, pc, impl, args, query, qvec, sent, rows,
                    results, outcome, error, log, prev, ui, gc >>

\* emb = client.embeddings.create(model=..., input=text).data[0].embedding
Ing_Embed ==
    /\ ing.pc = "embed"
    /\ \E o \in ProviderOutcomes, v \in Vectors :
          CASE o = "ok" ->
                 /\ ing' = [ ing EXCEPT !.pc = "insert", !.emb = Some(v),
                               !.reqs = Append(ing.reqs, [ row |-> ing.i, vec |-> Some(v) ]) ]
                 /\ UNCHANGED openConns
            [] o = "short" ->
                 /\ ing' = [ ing EXCEPT !.pc = "insert", !.emb = Some(ShortVec),
                               !.reqs = Append(ing.reqs, [ row |-> ing.i, vec |-> Some(ShortVec) ]) ]
                 /\ UNCHANGED openConns
            [] OTHER ->
                 /\ ing' = [ ing EXCEPT !.pc = "failed",
                               !.reqs = Append(ing.reqs, [ row |-> ing.i, vec |-> None ]) ]
                 /\ openConns' = ConnExit(openConns)
    /\ UNCHANGED << env, client, store, pc, impl, args, query, qvec, sent, rows,
                    results, outcome, error, log, prev, ui, gc >>

\* insert into public.feedback (...) values (...); rows_inserted += 1
Ing_Insert ==
    /\ ing.pc = "insert"
    /\ \/ /\ ~StoreRejects(Val(ing.emb), 0)
          /\ store' = store \cup { Ing_Record(ing.csv[ing.i], ing.nextId, Val(ing.emb)) }
          /\ ing' = [ ing EXCEPT !.pc = "row", !.i = ing.i + 1, !.emb = None,
                                 !.nextId = ing.nextId + 1,
                                 !.ins = Append(ing.ins, ing.i) ]
          /\ UNCHANGED openConns
       \/ Ing_Fail(TRUE) /\ UNCHANGED store
    /\ UNCHANGED << env, client, pc, impl, args, query, qvec, sent, rows,
                    results, outcome, error, log, prev, ui, gc >>

----------------------------------------------------------------------------
(* scripts/search_feedback.py: get_client under concurrent callers *)

\* everything the retrieval invocation and the other programs own
notGc == << env, store, pc, impl, args, query, qvec, sent, rows, results, outcome,
           error, openConns, log, prev, ui, ing >>

GC_At(t, here, there) ==
    /\ gc.pc[t] = here
    /\ gc' = [ gc EXCEPT !.pc[t] = there ]

\* a thread calls get_client()
GC_Call(t) ==
    /\ gc.pc[t] \in { "out", "returned", "raised" }
    /\ gc' = [ gc EXCEPT !.pc[t] = "test", !.made[t] = 0 ]
    /\ UNCHANGED << client, notGc >>

\* if _client is None:
GC_TestNone(t) ==
    /\ GC_At(t, "test", IF client = None THEN "getenv" ELSE "return")
    /\ UNCHANGED << client, notGc >>

\* api_key = os.getenv("OPENAI_API_KEY"); if not api_key: raise RuntimeError
GC_GetEnv(t) ==
    /\ GC_At(t, "getenv", IF env.api_key THEN "construct" ELSE "raised")
    /\ UNCHANGED << client, notGc >>

\* OpenAI(api_key=api_key): the right-hand side of the assignment
GC_Construct(t) ==
    /\ gc.pc[t] = "construct"
    /\ gc' = [ gc EXCEPT !.pc[t] = "store", !.made[t] = gc.built + 1,
                         !.built = gc.built + 1 ]
    /\ UNCHANGED << client, notGc >>

\* _client = <the new object>
GC_Store(t) ==
    /\ GC_At(t, "store", "return")
    /\ client' = Some(gc.made[t])
    /\ UNCHANGED notGc

\* return _client
GC_Return(t) ==
    /\ gc.pc[t] = "return"
    /\ gc' = [ gc EXCEPT !.pc[t] = "returned", !.got[t] = Val(client) ]
    /\ UNCHANGED << client, notGc >>

----------------------------------------------------------------------------
(* app/app.py: the session state and the three buttons *)

\* st.slider("Top K matches", min_value=3, ...): the smallest value of the widget
SliderMin == 3

\* what the sidebar widgets can hold: the question box, the platform select box
\* and the country box (each a str, never None)
WidgetQueries == { << >>, << " ", "q" >> }
WidgetPlatforms == { << >>, << "A" >> }
WidgetCountries == { << >>, << " " >>, << "U" >> }

\* `s or None` on a str
OrNone(s) == IF s = << >> THEN None ELSE Some(s)

\* (x.strip() or None) if x else None
Run_Filter(o) == IF Truthy(o) THEN OrNone(Strip(Val(o))) ELSE None

\* results = [EvidenceItem(...) for h in hits]
Run_Results(hits) == [ i \in DOMAIN hits |-> EvidenceItem(hits[i]) ]

\* the evidence line of run_agentic_analysis for one item
EvidenceLine(e) ==
    [ part |-> "evidence",
      ref  |-> << e.evidence_id, e.platform, e.country, e.similarity, e.text >> ]

\* run_agentic_analysis(question, evidence) passed through to_readable_text: the
\* markdown is abstracted to its parts, the fixed text and one line per item
Run_Agentic_Analysis(evidence) ==
    << [ part |-> "analysis", ref |-> << >> ] >>
        \o [ i \in DOMAIN evidence |-> EvidenceLine(evidence[i]) ]

\* generate_weekly_pm_brief(question, evidence) passed through to_readable_text:
\* the fixed text and the list of evidence ids
Generate_Weekly_Pm_Brief(evidence) ==
    << [ part |-> "brief",
         ref  |-> [ i \in DOMAIN evidence |-> evidence[i].evidence_id ] ] >>

UI_ClearOutputs_Kept(s) == s

\* st.session_state.analysis_text = ""; st.session_state.weekly_text = ""
UI_ClearOutputs(s) == [ s EXCEPT !.analysis_text = << >>, !.weekly_text = << >> ]

\* Run Retrieval is clicked: run_retrieval(query, platform or None,
\* country.strip() or None, top_k) calls search_feedback
UI_RunRetrieval(q, p, c) ==
    Scr_Call(Some(q), SliderMin, Run_Filter(OrNone(Strip(c))), Run_Filter(OrNone(p)),
             None)

\* search_feedback is over: its list becomes the evidence and the outputs are
\* cleared, or its exception ends the script run before any assignment
UI_RetrievalOver ==
    /\ Return
    /\ ui' = IF outcome = "return"
             THEN UI_ClearOutputs([ ui EXCEPT !.evidence = Run_Results(results) ])
             ELSE ui
    /\ UNCHANGED prev

\* Generate Agentic Analysis is clicked; the button exists only if matches > 0
UI_GenerateAnalysis ==
    /\ pc = "idle"
    /\ Len(ui.evidence) # 0
    /\ ui' = [ ui EXCEPT !.analysis_text = Run_Agentic_Analysis(ui.evidence) ]
    /\ UNCHANGED << ing, gc, prev, env, client, store, pc, impl, args, query, qvec,
                    sent, rows, results, outcome, error, openConns, log >>

\* Generate Weekly PM Brief is clicked; the button exists only if matches > 0
UI_GenerateWeekly ==
    /\ pc = "idle"
    /\ Len(ui.evidence) # 0
    /\ ui' = [ ui EXCEPT !.weekly_text = Generate_Weekly_Pm_Brief(ui.evidence) ]
    /\ UNCHANGED << ing, gc, prev, env, client, store, pc, impl, args, query, qvec,
                    sent, rows, results, outcome, error, openConns, log >>

----------------------------------------------------------------------------
(* Specifications *)

\* any caller, any arguments, any configuration
Forget == Return /\ UNCHANGED << prev, ui >>

Next ==
    \/ \E q \in Questions, k \in TopKs, c \in Countries, p \in Platforms,
          u \in UserTypes : Scr_Call(q, k, c, p, u)
    \/ Scr_Steps
    \/ \E q \in Questions, k \in TopKs, p \in Platforms, c \in Countries :
          Agt_Call(q, k, p, c)
    \/ Agt_Steps
    \/ Forget

Spec == Init /\ [][Next]_vars

\* a caller that asks one question after another, unfiltered, with the
\* configuration complete; prev remembers the last invocation that returned rows
SeqInit ==
    /\ Init
    /\ env = [ db_url |-> TRUE, api_key |-> TRUE ]
    /\ store = FeedbackRows

Remember ==
    /\ Return
    /\ prev' = IF outcome = "return" /\ sent.kind # "none"
               THEN Some([ question |-> query, vec |-> qvec ])
               ELSE prev
    /\ UNCHANGED ui

SeqNext ==
    \/ \E q \in Questions : Scr_Call(q, MaxTopK, None, None, None)
    \/ Scr_Steps
    \/ \E q \in Questions : Agt_Call(q, MaxTopK, None, None)
    \/ Agt_Steps
    \/ Remember

SeqSpec == SeqInit /\ [][SeqNext]_vars

\* one run of the ingestion script over some CSV file, on a table that is empty
\* or was filled before
IngestInit ==
    /\ Boot
    /\ store \in { {}, StaleRows, FeedbackRows }

IngestNext ==
    \/ \E csv \in CsvFiles : Ing_Start(csv)
    \/ Ing_RequireEnv
    \/ Ing_Connect
    \/ Ing_Wipe
    \/ Ing_NextRow
    \/ Ing_Embed
    \/ Ing_Insert

IngestSpec == IngestInit /\ [][IngestNext]_vars

\* threads calling get_client again and again, interleaved at every statement
ClientNext ==
    \E t \in Threads :
        \/ GC_Call(t)
        \/ GC_TestNone(t)
        \/ GC_GetEnv(t)
        \/ GC_Construct(t)
        \/ GC_Store(t)
        \/ GC_Return(t)

ClientSpec == Init /\ [][ClientNext]_vars

\* one browser session: any sequence of clicks on the three buttons
UiNext ==
    \/ \E q \in WidgetQueries, p \in WidgetPlatforms, c \in WidgetCountries :
          UI_RunRetrieval(q, p, c)
    \/ Scr_Steps
    \/ UI_RetrievalOver
    \/ UI_GenerateAnalysis
    \/ UI_GenerateWeekly

UiSpec == Init /\ [][UiNext]_vars

\* any caller and any arguments, with both configuration values set
CfgInit == Init /\ env.db_url /\ env.api_key

CfgSpec == CfgInit /\ [][Next]_vars

----------------------------------------------------------------------------
(* Vocabulary of the properties *)

\* None, the empty string or a whitespace-only string
Blank(o) == o = None \/ Strip(Val(o)) = << >>

Count(e) == Cardinality({ i \in DOMAIN log : log[i].ev = e })

Calling == impl # "none"

Returned == pc = "done" /\ outcome = "return"

FilterFields == { "platform", "country", "user_type" }

\* the store is asked to compare field f with a value
Constrained(f) ==
    IF sent.kind = "select"
    THEN \E i \in DOMAIN sent.where : sent.where[i] = f
    ELSE sent.params[f] # None

\* the score of a returned record, under the key its implementation uses
ScoreOf(rec) == IF impl = "scripts" THEN rec.similarity ELSE rec.score

\* the embedding request of this invocation failed or came back malformed
ProviderFailed ==
    \E i \in DOMAIN log :
        log[i].ev = "embed" /\ (log[i].arg = None \/ Val(log[i].arg) \notin Vectors)

----------------------------------------------------------------------------
(* Properties *)

\* C1: a call whose question is None, empty or whitespace-only returns an
\* empty list at once, whatever the configuration: no embedding request, no
\* store connection and no store query happen in that call.
C1_BlankQuestionShortCircuits ==
    (Calling /\ Blank(args.question)) =>
        /\ Count("embed") = 0
        /\ Count("connect") = 0
        /\ Count("query") = 0
        /\ pc = "done" => (outcome = "return" /\ results = << >>)

\* C2: for a non-blank question the returned list has at most top_k items and
\* its scores never increase from one item to the next.
C2_AtMostTopKDescending ==
    (Returned /\ ~Blank(args.question)) =>
        /\ Len(results) <= args.top_k
        /\ \A i \in 1 .. Len(results) - 1 :
              ScoreOf(results[i]) >= ScoreOf(results[i + 1])

\* a list cut at top_k whose scores differ
C2_Witness ==
    /\ Returned
    /\ ~Blank(args.question)
    /\ args.top_k = 2
    /\ Len(results) = 2
    /\ ScoreOf(results[1]) > ScoreOf(results[2])
    /\ Cardinality(store) > 2

\* C3: a filter whose supplied value is None, empty or whitespace-only puts no
\* equality constraint on its field in the query sent to the store.
C3_BlankFilterUnconstrained ==
    sent.kind # "none" =>
        \A f \in FilterFields : Blank(args[f]) => ~Constrained(f)

\* the value a filter was supplied with, as given or trimmed
Supplied(f) == { args[f], Some(Strip(Val(args[f]))) }

\* C4: the query carries exactly one equality predicate per filter that is
\* neither None nor blank, bound to that filter's value, and the limit top_k;
\* so every returned item has the filter's value in each filtered field.
C4_OnePredicatePerActiveFilter ==
    /\ sent.kind # "none" =>
          /\ \A f \in FilterFields : Constrained(f) <=> ~Blank(args[f])
          /\ \A f \in FilterFields : Constrained(f) => sent.params[f] \in Supplied(f)
          /\ sent.params.k = args.top_k
    /\ (Returned /\ sent.kind # "none") =>
          \A i \in DOMAIN results : \A f \in { "platform", "country" } :
              ~Blank(args[f]) => results[i][f] \in Supplied(f)

ProviderErrors == { "openai.APIError", "openai.APITimeoutError", "IndexError" }

\* C5: when the embedding request made for a non-blank question fails (error,
\* timeout, malformed response) the call ends in a provider error, returns no
\* list, and neither connects to the store nor queries it.
C5_ProviderFailureSurfaces ==
    (Calling /\ ~Blank(args.question) /\ ProviderFailed) =>
        /\ Count("connect") = 0
        /\ Count("query") = 0
        /\ pc = "done" => (outcome = "raise" /\ error \in ProviderErrors)

ConfigErrors ==
    { "RuntimeError: Missing SUPABASE_DB_URL", "RuntimeError: Missing OPENAI_API_KEY" }

\* C6: with the store URL or the API key absent, the call fails with a
\* configuration error before any embedding request is sent and before any
\* store connection is opened.
C6_MissingConfigFailsFirst ==
    (Calling /\ (~env.db_url \/ ~env.api_key)) =>
        /\ Count("embed") = 0
        /\ Count("connect") = 0
        /\ pc = "done" => (outcome = "raise" /\ error \in ConfigErrors)

\* C7: a store connection opened by an invocation is closed by the time the
\* invocation ends (rows returned, query failed, or row mapping failed), and
\* already when the rows are mapped; none stays open between invocations.
C7_ConnectionReleased ==
    /\ pc \in { "idle", "done", "scr_map", "agt_map" } => openConns = 0
    /\ openConns <= 1

\* an invocation that opened a connection and ended by a failed query
C7_Witness ==
    /\ pc = "done"
    /\ outcome = "raise"
    /\ error = "psycopg.Error"
    /\ Count("connect") = 1
    /\ Count("close") = 1

\* a returned record read back as the row it was built from
RowOfRecord(rec) ==
    IF impl = "scripts"
    THEN << rec.id, rec.text, rec.country, rec.platform, rec.rating, Some(rec.similarity) >>
    ELSE << rec.id, rec.country, rec.platform, rec.rating, rec.text, Some(rec.score) >>

\* the invocation got as far as the row-mapping loop
MappingRan == pc = "done" /\ Count("close") = 1 /\ error # "psycopg.Error"

C9_MapperNeverFails ==
    MappingRan =>
        /\ outcome = "return"
        /\ Len(results) = Len(rows)
        /\ \A i \in DOMAIN results : rows[i][6] = None => ScoreOf(results[i]) = 0

\* C10: every invocation that returns for a non-blank question made exactly
\* one embedding request and then exactly one store query, and the query was
\* given the vector that request returned, whatever earlier invocations did.
C10_EmbedThenQueryEachCall ==
    (Returned /\ ~Blank(args.question)) =>
        /\ Count("embed") = 1
        /\ Count("query") = 1
        /\ \A i \in DOMAIN log : \A j \in DOMAIN log :
              (log[i].ev = "embed" /\ log[j].ev = "query") =>
                  /\ i < j
                  /\ log[i].arg = qvec
                  /\ log[j].arg = log[i].arg
        /\ sent.params.q_emb = Val(qvec)

\* the same question asked again, answered with a vector of its own
C10_Witness ==
    /\ Returned
    /\ ~Blank(args.question)
    /\ prev # None
    /\ Val(prev).question = query
    /\ Val(prev).vec # qvec
    /\ Len(results) > 0

RecordKeys == { "id", "platform", "country", "rating", "text", "similarity" }

\* C11: every record search_feedback returns, in either implementation, has
\* the keys id, platform, country, rating, text and similarity, so that
\* run_retrieval reads the score the store computed, not its 0.0 default.
C11_RecordsExposeSimilarity ==
    (Returned /\ sent.kind # "none") =>
        \A i \in DOMAIN results :
            /\ RecordKeys \subseteq DOMAIN results[i]
            /\ EvidenceItem(results[i]).similarity = Val(rows[i][6])

\* the embedding requests made for CSV row j
ReqsFor(j) == { k \in DOMAIN ing.reqs : ing.reqs[k].row = j }

\* the positions of CSV row j among the inserts
InsertsOf(j) == { k \in DOMAIN ing.ins : ing.ins[k] = j }

\* C12: once the wipe has run the table never holds a record with a blank
\* text: a CSV row whose text is blank or missing gets no embedding request
\* and no insert, and every other row the loop has passed was inserted exactly
\* once, in CSV order, with the embedding requested for it; a run that reaches
\* its end has inserted every such row.
C12_NoBlankTextIngested ==
    ing.wiped =>
        /\ \A r \in store : Strip(r.text) # << >>
        /\ \A j \in DOMAIN ing.csv :
              /\ Blank(ing.csv[j].text) => (ReqsFor(j) = {} /\ InsertsOf(j) = {})
              /\ Cardinality(ReqsFor(j)) <= 1
              /\ Cardinality(InsertsOf(j)) <= 1
              /\ (j < ing.i /\ ~Blank(ing.csv[j].text)) =>
                    (Cardinality(ReqsFor(j)) = 1 /\ Cardinality(InsertsOf(j)) = 1)
        /\ \A k \in DOMAIN ing.ins : \A l \in DOMAIN ing.ins :
              k < l => ing.ins[k] < ing.ins[l]
        /\ Cardinality(store) = Len(ing.ins)
        /\ \A k \in DOMAIN ing.ins :
              \E r \in store :
                  /\ r.id = ing.nextId - Len(ing.ins) + k - 1
                  /\ r.text = Strip(Val(ing.csv[ing.ins[k]].text))
                  /\ \A q \in ReqsFor(ing.ins[k]) : ing.reqs[q].vec = r.embedding
        /\ ing.pc = "done" =>
              \A j \in DOMAIN ing.csv : ~Blank(ing.csv[j].text) => InsertsOf(j) # {}

\* a finished run over three rows, the middle one blank, on a table that held rows
C12_Witness ==
    /\ ing.pc = "done"
    /\ ing.wiped
    /\ ing.nextId > 3
    /\ Len(ing.csv) = 3
    /\ ing.ins = << 1, 3 >>
    /\ Blank(ing.csv[2].text)
    /\ Cardinality(store) = 2

\* C13: across concurrent callers of get_client the client object is built at
\* most once and every caller that returned holds the same object; a call that
\* raises for a missing key leaves the shared handle unset.
C13_ClientBuiltOnce ==
    /\ gc.built <= 1
    /\ \A t \in Threads : \A u \in Threads :
          (gc.got[t] # 0 /\ gc.got[u] # 0) => gc.got[t] = gc.got[u]
    /\ (\E t \in Threads : gc.pc[t] = "raised") => client = None

\* the session state changes in this step
Completes == pc = "done" /\ outcome = "return"

\* C14: in the session state a non-empty analysis_text or weekly_text is the
\* rendering of the evidence list stored now; a retrieval that completes
\* replaces the evidence by its own results and empties both texts; a retrieval
\* that raises changes none of the three; and a text is only ever generated
\* while the stored evidence is non-empty.
C14_OutputsMatchEvidence ==
    /\ [](/\ ui.analysis_text # << >> =>
                (ui.evidence # << >>
                   /\ ui.analysis_text = Run_Agentic_Analysis(ui.evidence))
          /\ ui.weekly_text # << >> =>
                (ui.evidence # << >>
                   /\ ui.weekly_text = Generate_Weekly_Pm_Brief(ui.evidence)))
    /\ [][/\ (Completes /\ pc' = "idle") =>
                ui' = [ evidence |-> Run_Results(results), analysis_text |-> << >>,
                        weekly_text |-> << >> ]
          /\ (pc = "done" /\ ~Completes) => ui' = ui
          /\ (pc # "done" /\ ui' # ui) =>
                (ui.evidence # << >> /\ ui'.evidence = ui.evidence)]_vars

\* an analysis and a brief are on screen for the three items a retrieval stored
C14_Witness ==
    /\ pc = "idle"
    /\ Len(ui.evidence) = SliderMin
    /\ ui.evidence[1].evidence_id = << "3" >>
    /\ ui.analysis_text # << >>
    /\ ui.weekly_text # << >>

====
